---- MODULE Spec2Model ----
(***************************************************************************)
(* jpcar_calc_bot: the daily currency-rate resolver (getRates, with its    *)
(* extraction chain over the fetched document and its date-keyed cache)    *)
(* and the import-cost calculator (calculate).                             *)
(*                                                                         *)
(* Numbers.  A rate is a JavaScript number; the model keeps it as an       *)
(* integer count of 1/RScale units (fixed point, four decimals).  NaN and  *)
(* null, which the parsing code tells apart from numbers, are tagged       *)
(* values.  Amounts of money in the calculator are pairs (whole, frac) so  *)
(* that price * rate is exact and stays inside TLC's integers.             *)
(***************************************************************************)
EXTENDS Integers, Sequences, FiniteSets, TLC

\* ------------------------------------------------------------------ bounds
\* Number of getRates calls that may be in flight at the same time.
NCalls == 2
\* Calendar days the clock can reach (dates are 1..MaxDate).
MaxDate == 2

\* ----------------------------------------------------------- number model
\* Fixed-point denominator of a rate (four decimals).
RScale == 10000

Codes == {"JPY", "USD", "EUR", "RUB"}

\* JavaScript values the parsers produce: a finite number, NaN or null.
Num(v) == [k |-> "num", v |-> v]
NaNv == [k |-> "NaN", v |-> 0]
Nullv == [k |-> "null", v |-> 0]

\* JavaScript truthiness of such a value: null, NaN and 0 are falsy.
Truthy(x) == x.k = "num" /\ x.v # 0

DigitChars == {"0", "1", "2", "3", "4", "5", "6", "7", "8", "9"}

DigitVal(ch) ==
  CASE ch = "0" -> 0 [] ch = "1" -> 1 [] ch = "2" -> 2 [] ch = "3" -> 3
    [] ch = "4" -> 4 [] ch = "5" -> 5 [] ch = "6" -> 6 [] ch = "7" -> 7
    [] ch = "8" -> 8 [] ch = "9" -> 9

\* String.prototype.replace(",", "."): only the first comma is replaced.
ReplaceFirstComma(s) ==
  IF \E i \in DOMAIN s : s[i] = ","
  THEN LET p == CHOOSE i \in DOMAIN s : s[i] = "," /\ \A j \in 1..(i - 1) : s[j] # ","
       IN [i \in DOMAIN s |-> IF i = p THEN "." ELSE s[i]]
  ELSE s

RECURSIVE DigitsValue(_)
DigitsValue(s) ==
  IF s = <<>> THEN 0
  ELSE 10 * DigitsValue(SubSeq(s, 1, Len(s) - 1)) + DigitVal(s[Len(s)])

\* The fraction digits f (after the point) in units of 1/RScale; digits past
\* the fourth are below the model's resolution.
FracValue(f) ==
  LET d(i) == IF i <= Len(f) THEN DigitVal(f[i]) ELSE 0
  IN 1000 * d(1) + 100 * d(2) + 10 * d(3) + d(4)

\* Number(text) for a text made of digits, dots and commas: a decimal literal
\* with at most one dot and at least one digit, anything else is NaN.
ToNumber(s) ==
  LET dots == {i \in DOMAIN s : s[i] = "."}
      digs == {i \in DOMAIN s : s[i] \in DigitChars}
  IN IF (\E i \in DOMAIN s : s[i] = ",") \/ Cardinality(dots) > 1 \/ digs = {}
     THEN NaNv
     ELSE LET p == IF dots = {} THEN Len(s) + 1 ELSE CHOOSE i \in dots : TRUE
          IN Num(RScale * DigitsValue(SubSeq(s, 1, p - 1))
                 + FracValue(SubSeq(s, p + 1, Len(s))))

\* ------------------------------------------------------- fetched document
\* The document is the sequence of the places the extraction looks at, in
\* document order: an id="..." attribute, an occurrence of the text
\* currency-tabs__item, a currency-table__val cell naming a currency, a
\* "покупка" (buy) or "продажа" (sale) head followed by the characters that
\* [\d.,]+ can take there (none: the head is followed by something else),
\* and a name="..." value="..." pair of a hidden input.
TabId(id) == [t |-> "tabid", a |-> id, txt |-> <<>>]
Item == [t |-> "item", a |-> "", txt |-> <<>>]
ValCell(cur) == [t |-> "val", a |-> cur, txt |-> <<>>]
Buy(txt) == [t |-> "buy", a |-> "", txt |-> txt]
Sale(txt) == [t |-> "sale", a |-> "", txt |-> txt]
Hidden(name, txt) == [t |-> "hidden", a |-> name, txt |-> txt]

\* indexOf over the places of one kind: the least position >= from, 0 if none.
IndexOf(html, from, P(_)) ==
  LET hits == {i \in DOMAIN html : i >= from /\ P(html[i])}
  IN IF hits = {} THEN 0 ELSE CHOOSE i \in hits : \A j \in hits : i <= j

sliceTab(html, id) ==
  LET start == IndexOf(html, 1, LAMBDA x : x.t = "tabid" /\ x.a = id)
      next == IndexOf(html, start + 1, LAMBDA x : x.t = "item")
  IN IF start = 0 THEN html
     ELSE IF next = 0 THEN SubSeq(html, start, Len(html))
     ELSE SubSeq(html, start, next - 1)

\* The regular expression of parseSaleFromBlock: the currency cell, lazily
\* anything, a buy head with a number text, lazily anything, a sale head with
\* a number text.  The leftmost match starts at the first cell of the
\* currency, takes the first buy after it and the first sale after that.
parseSaleFromBlock(block, currency) ==
  LET i == IndexOf(block, 1, LAMBDA x : x.t = "val" /\ x.a = currency)
      j == IF i = 0 THEN 0
           ELSE IndexOf(block, i + 1, LAMBDA x : x.t = "buy" /\ x.txt # <<>>)
      m == IF j = 0 THEN 0
           ELSE IndexOf(block, j + 1, LAMBDA x : x.t = "sale" /\ x.txt # <<>>)
  IN IF m = 0 THEN Nullv
     ELSE LET num == ToNumber(ReplaceFirstComma(block[m].txt))
          IN IF num.k = "num" THEN num ELSE Nullv

\* extract(name) of parseHiddenInputs: the first hidden input of that name
\* whose value is a number text; the result may be NaN.
extract(html, name) ==
  LET i == IndexOf(html, 1, LAMBDA x : x.t = "hidden" /\ x.a = name /\ x.txt # <<>>)
  IN IF i = 0 THEN Nullv ELSE ToNumber(ReplaceFirstComma(html[i].txt))

\* Mutant of ??: the right operand is preferred.
CoalesceBug(a, b) == IF b.k = "null" THEN a ELSE b

\* a ?? b
Coalesce(a, b) == IF a.k = "null" THEN b ELSE a

\* A parser's answer: ok = FALSE stands for null (or the thrown parse error).
NoRates == [ok |-> FALSE, rates |-> [c \in {} |-> 0]]
Snapshot(usd, eur, jpy) ==
  [ok |-> TRUE,
   rates |-> [c \in Codes |->
                CASE c = "RUB" -> RScale
                  [] c = "USD" -> usd
                  [] c = "EUR" -> eur
                  [] c = "JPY" -> jpy]]

\* Mutant of parseHiddenInputs: >= in place of > at the threshold.
parseHiddenInputsBug(html) ==
  LET usd == Coalesce(extract(html, "usd2"), extract(html, "usd1"))
      eur == Coalesce(extract(html, "eur2"), extract(html, "eur1"))
      jpyRaw == Coalesce(extract(html, "jpy2"), extract(html, "jpy1"))
  IN IF ~Truthy(usd) \/ ~Truthy(eur) \/ ~Truthy(jpyRaw) THEN NoRates
     ELSE Snapshot(usd.v, eur.v,
                   IF jpyRaw.v >= 5 * RScale THEN jpyRaw.v \div 100 ELSE jpyRaw.v)

parseHiddenInputs(html) ==
  LET usd == Coalesce(extract(html, "usd2"), extract(html, "usd1"))
      eur == Coalesce(extract(html, "eur2"), extract(html, "eur1"))
      jpyRaw == Coalesce(extract(html, "jpy2"), extract(html, "jpy1"))
  IN IF ~Truthy(usd) \/ ~Truthy(eur) \/ ~Truthy(jpyRaw) THEN NoRates
     ELSE Snapshot(usd.v, eur.v,
                   IF jpyRaw.v > 5 * RScale THEN jpyRaw.v \div 100 ELSE jpyRaw.v)

\* Mutant of parseAtbRates: the table's values are returned without the test
\* that all three are there (a missing one is 0).
parseAtbRatesUnchecked(html) ==
  LET transferBlock == sliceTab(html, "currencyTab4")
      usdSale == parseSaleFromBlock(transferBlock, "USD")
      eurSale == parseSaleFromBlock(transferBlock, "EUR")
      jpySalePer100 == parseSaleFromBlock(transferBlock, "JPY")
  IN Snapshot(usdSale.v, eurSale.v, jpySalePer100.v \div 100)

\* Mutant of parseAtbRates: the hidden inputs are tried first.
parseAtbRatesHiddenFirst(html) ==
  LET transferBlock == sliceTab(html, "currencyTab4")
      usdSale == parseSaleFromBlock(transferBlock, "USD")
      eurSale == parseSaleFromBlock(transferBlock, "EUR")
      jpySalePer100 == parseSaleFromBlock(transferBlock, "JPY")
  IN IF parseHiddenInputs(html).ok THEN parseHiddenInputs(html)
     ELSE IF Truthy(usdSale) /\ Truthy(eurSale) /\ Truthy(jpySalePer100)
     THEN Snapshot(usdSale.v, eurSale.v, jpySalePer100.v \div 100)
     ELSE NoRates

\* Mutant of parseAtbRates: a code the table lacks is taken from the hidden
\* inputs, code by code.
parseAtbRatesMix(html) ==
  LET transferBlock == sliceTab(html, "currencyTab4")
      usdSale == parseSaleFromBlock(transferBlock, "USD")
      eurSale == parseSaleFromBlock(transferBlock, "EUR")
      jpySalePer100 == parseSaleFromBlock(transferBlock, "JPY")
      usd == IF Truthy(usdSale) THEN usdSale
             ELSE Coalesce(extract(html, "usd2"), extract(html, "usd1"))
      eur == IF Truthy(eurSale) THEN eurSale
             ELSE Coalesce(extract(html, "eur2"), extract(html, "eur1"))
      jpy == IF Truthy(jpySalePer100) THEN jpySalePer100
             ELSE Coalesce(extract(html, "jpy2"), extract(html, "jpy1"))
  IN IF Truthy(usd) /\ Truthy(eur) /\ Truthy(jpy)
     THEN Snapshot(usd.v, eur.v, jpy.v \div 100)
     ELSE NoRates

parseAtbRates(html) ==
  LET transferBlock == sliceTab(html, "currencyTab4")
      usdSale == parseSaleFromBlock(transferBlock, "USD")
      eurSale == parseSaleFromBlock(transferBlock, "EUR")
      jpySalePer100 == parseSaleFromBlock(transferBlock, "JPY")
  IN IF Truthy(usdSale) /\ Truthy(eurSale) /\ Truthy(jpySalePer100)
     THEN Snapshot(usdSale.v, eurSale.v, jpySalePer100.v \div 100)
     ELSE parseHiddenInputs(html)


\* ---------------------------------------------------- the fetched documents
\* What the rate source can answer with, in this model: the page with the
\* transfer table in the currencyTab4 section (two versions, as the rates
\* change during a day), a page with hidden inputs only, and two pages from
\* which nothing can be extracted.
DocTableA ==
  << Item, TabId("currencyTab1"), ValCell("USD"), Buy(<<"7", "0">>), Sale(<<"7", "1">>),
     Item, TabId("currencyTab4"),
     ValCell("USD"), Buy(<<"7", "9", ".", "1">>), Sale(<<"8", "0", ".", "5">>),
     ValCell("EUR"), Buy(<<"9", "2">>), Sale(<<"9", "4", ",", "1">>),
     ValCell("JPY"), Buy(<<"5", "1">>), Sale(<<"5", "3", ".", "2">>),
     Item, TabId("currencyTab5"),
     Hidden("usd2", <<"8", "8">>), Hidden("eur2", <<"9", "9">>),
     Hidden("jpy2", <<"0", ".", "6">>) >>

DocTableB ==
  << Item, TabId("currencyTab4"),
     ValCell("USD"), Buy(<<"7", "9">>), Sale(<<"8", "1">>),
     ValCell("EUR"), Buy(<<"9", "2">>), Sale(<<"9", "5">>),
     ValCell("JPY"), Buy(<<"5", "1">>), Sale(<<"5", "4">>),
     Item >>

DocHiddenOnly ==
  << Hidden("usd1", <<"8", "2">>), Hidden("eur2", <<"9", "6", ",", "5">>),
     Hidden("eur1", <<"9", "0">>), Hidden("jpy1", <<"5", "5">>) >>

DocNoJpy ==
  << Item, TabId("currencyTab4"),
     ValCell("USD"), Buy(<<"7", "9">>), Sale(<<"8", "1">>),
     ValCell("EUR"), Buy(<<"9", "2">>), Sale(<<"9", "5">>),
     ValCell("JPY"), Buy(<<"5", "1">>), Sale(<<"5", ".", "4", ".", "1">>),
     Item, Hidden("usd2", <<"8", "2">>), Hidden("eur2", <<"0">>) >>

DocEmpty == << Item >>

FetchDocs == {DocTableA, DocHiddenOnly, DocNoJpy}

\* ------------------------------------------------------------- rate cache
Calls == 1..NCalls
Dates == 1..MaxDate

EmptyMap == [c \in {} |-> 0]

\* A RateCache document: its date and its rates field (a Map of Number, or
\* no field at all in a record that did not come from getRates).
CacheDoc(d, m) == [date |-> d, hasRates |-> TRUE, rates |-> m]
NoDoc == [found |-> FALSE, hasRates |-> FALSE, rates |-> EmptyMap]

\* RateCache.findOne({ date }): the first document of that date, or null.
FindOne(coll, d) ==
  LET i == IndexOf(coll, 1, LAMBDA x : x.date = d)
  IN IF i = 0 THEN NoDoc
     ELSE [found |-> TRUE, hasRates |-> coll[i].hasRates, rates |-> coll[i].rates]

\* Mutants of findOneAndUpdate: an insert that does not look for the date, and
\* an update that leaves an existing record alone.
FindOneAndUpdateInsert(coll, d, m) == Append(coll, [date |-> d, hasRates |-> TRUE, rates |-> m])

FindOneAndUpdateKeep(coll, d, m) ==
  IF \E i \in DOMAIN coll : coll[i].date = d THEN coll
  ELSE Append(coll, [date |-> d, hasRates |-> TRUE, rates |-> m])

\* RateCache.findOneAndUpdate({ date }, { rates }, { upsert: true }): one
\* atomic operation of the store; the update sets the whole rates field of
\* the first document of that date, or inserts the document when the date has
\* none (date is a unique key of the collection).
FindOneAndUpdate(coll, d, m) ==
  LET i == IndexOf(coll, 1, LAMBDA x : x.date = d)
  IN IF i = 0 THEN Append(coll, CacheDoc(d, m))
     ELSE [coll EXCEPT ![i] = CacheDoc(d, m)]

mapToObject(doc) == IF ~doc.hasRates THEN EmptyMap ELSE doc.rates

\* Mutant of hasAll: ! in place of !!.
hasAllBug(r) == ~(\A code \in Codes : code \in DOMAIN r /\ r[code] # 0)

hasAll(r) == \A code \in Codes : code \in DOMAIN r /\ r[code] # 0

\* The records a date can hold when the program starts: none of them is
\* written by this version of getRates unless it is complete.
StoredMaps ==
  { [c \in Codes |-> IF c = "RUB" THEN RScale ELSE 7 * RScale + 1],
    [c \in {"RUB", "USD", "JPY"} |-> IF c = "JPY" THEN 0 ELSE RScale] }

InitialStores ==
  {<<>>} \cup {<<CacheDoc(1, m)>> : m \in StoredMaps}
         \cup {<<[date |-> 1, hasRates |-> FALSE, rates |-> EmptyMap]>>}


\* ------------------------------------------------------------------ state
VARIABLES
  now,        \* the current calendar date (new Date() cut to the day)
  store,      \* the RateCache collection: documents in insertion order
  pc,         \* per call: where the call of getRates stands
  today,      \* per call: the date the call computed when it started
  cached,     \* per call: what its findOne returned
  rates,      \* per call: the snapshot parseAtbRates returned
  result,     \* per call: the value the call returned
  err,        \* per call: the error the call threw ("none" if none)
  path,       \* per call: the return statement that ended it
  resp,       \* per call: how its fetch ended ("none" before the fetch)
  html,       \* per call: the text of the response (<<>> if none)
  wrote,      \* per call: the call's findOneAndUpdate has taken effect
  lastWrite,  \* per date: the snapshot of the latest upsert by a call
  lastReturn, \* the latest value a call returned, with its date
  cin,        \* calculate: the CalculationInput of the latest call
  crates,     \* calculate: the rates of the latest call
  cconfig,    \* calculate: the delivery configuration of the latest call
  cout,       \* calculate: what the latest call returned or threw
  pdoc,       \* parseAtbRates: the document of the latest call
  pout,       \* parseAtbRates: what the latest call returned or threw
  session,    \* dialogue: ctx.session, its step and its input draft
  last        \* dialogue: what the latest handler did

getVars == <<now, store, pc, today, cached, rates, result, err, path, resp, html,
             wrote, lastWrite, lastReturn>>

calcVars == <<cin, crates, cconfig, cout>>

parseVars == <<pdoc, pout>>

botVars == <<session, last>>

\* What the actions of getRates leave alone.
notGet == <<calcVars, parseVars, botVars>>

vars == <<getVars, calcVars, parseVars, botVars>>

NoReturn == [valid |-> FALSE, date |-> 0, snap |-> EmptyMap]
NoWrite == [valid |-> FALSE, snap |-> EmptyMap]

GetInit ==
  /\ now = 1
  /\ store \in InitialStores
  /\ pc = [c \in Calls |-> "idle"]
  /\ today = [c \in Calls |-> 0]
  /\ cached = [c \in Calls |-> NoDoc]
  /\ rates = [c \in Calls |-> EmptyMap]
  /\ result = [c \in Calls |-> EmptyMap]
  /\ err = [c \in Calls |-> "none"]
  /\ path = [c \in Calls |-> "none"]
  /\ resp = [c \in Calls |-> "none"]
  /\ html = [c \in Calls |-> <<>>]
  /\ wrote = [c \in Calls |-> FALSE]
  /\ lastWrite = [d \in Dates |-> NoWrite]
  /\ lastReturn = NoReturn

\* The calendar date changes.
Tick ==
  /\ now < MaxDate
  /\ now' = now + 1
  /\ UNCHANGED <<store, pc, today, cached, rates, result, err, path, resp, html,
                 wrote, lastWrite>>
  /\ UNCHANGED notGet

\* Mutant of the start of getRates: the stored snapshot is never returned.
BeginBug(c) ==
  /\ pc[c] = "idle"
  /\ today' = [today EXCEPT ![c] = now]
  /\ cached' = [cached EXCEPT ![c] = FindOne(store, now)]
  /\ pc' = [pc EXCEPT ![c] = "fetch"]
  /\ UNCHANGED <<now, store, rates, result, err, path, resp, html, wrote, lastWrite>>
  /\ UNCHANGED notGet

\* getRates, from its start to the first await that leaves it: the date, the
\* findOne, and the return of a stored snapshot that has all four codes.
Begin(c) ==
  /\ pc[c] = "idle"
  /\ today' = [today EXCEPT ![c] = now]
  /\ cached' = [cached EXCEPT ![c] = FindOne(store, now)]
  /\ LET doc == FindOne(store, now)
     IN IF doc.found /\ hasAll(mapToObject(doc))
        THEN /\ pc' = [pc EXCEPT ![c] = "done"]
             /\ path' = [path EXCEPT ![c] = "hit"]
             /\ result' = [result EXCEPT ![c] = mapToObject(doc)]
        ELSE /\ pc' = [pc EXCEPT ![c] = "fetch"]
             /\ UNCHANGED <<path, result>>
  /\ UNCHANGED <<now, store, rates, err, resp, html, wrote, lastWrite>>
  /\ UNCHANGED notGet

\* Mutant of the catch branch: the fallback only for a record with all codes.
FallsBackBug(doc) == doc.found /\ doc.hasRates /\ DOMAIN doc.rates = Codes

\* The catch branch of getRates: if (cached).
FallsBack(doc) == doc.found

\* Mutant of the response check: a response that is not ok falls back to the
\* record read at the start instead of throwing.
FetchFailsBug(c, kind) ==
  /\ pc[c] = "fetch"
  /\ resp' = [resp EXCEPT ![c] = kind]
  /\ IF kind = "notok" /\ cached[c].found
     THEN /\ pc' = [pc EXCEPT ![c] = "done"]
          /\ path' = [path EXCEPT ![c] = "fallback"]
          /\ result' = [result EXCEPT ![c] = mapToObject(cached[c])]
          /\ UNCHANGED err
     ELSE /\ pc' = [pc EXCEPT ![c] = "failed"]
          /\ err' = [err EXCEPT ![c] = IF kind = "notok" THEN "unreachable" ELSE "network"]
          /\ UNCHANGED <<path, result>>
  /\ UNCHANGED <<now, store, today, cached, rates, html, wrote, lastWrite>>
  /\ UNCHANGED notGet

\* fetch(ATB_URL) rejects (kind "rejected") or answers with a response that is
\* not ok (kind "notok"): getRates throws.
FetchFails(c, kind) ==
  /\ pc[c] = "fetch"
  /\ resp' = [resp EXCEPT ![c] = kind]
  /\ pc' = [pc EXCEPT ![c] = "failed"]
  /\ err' = [err EXCEPT ![c] = IF kind = "notok" THEN "unreachable" ELSE "network"]
  /\ UNCHANGED <<now, store, today, cached, rates, result, path, html, wrote,
                 lastWrite>>
  /\ UNCHANGED notGet

\* The response is ok and its text is text: parseAtbRates, and on its error
\* the fallback to the record read at the start.
FetchOk(c, text) ==
  /\ pc[c] = "fetch"
  /\ resp' = [resp EXCEPT ![c] = "ok"]
  /\ html' = [html EXCEPT ![c] = text]
  /\ LET parsed == parseAtbRates(text)
     IN IF parsed.ok
        THEN /\ rates' = [rates EXCEPT ![c] = parsed.rates]
             /\ pc' = [pc EXCEPT ![c] = "upsert"]
             /\ UNCHANGED <<result, err, path>>
        ELSE IF FallsBack(cached[c])
        THEN /\ pc' = [pc EXCEPT ![c] = "done"]
             /\ path' = [path EXCEPT ![c] = "fallback"]
             /\ result' = [result EXCEPT ![c] = mapToObject(cached[c])]
             /\ UNCHANGED <<rates, err>>
        ELSE /\ pc' = [pc EXCEPT ![c] = "failed"]
             /\ err' = [err EXCEPT ![c] = "parse"]
             /\ UNCHANGED <<rates, result, path>>
  /\ UNCHANGED <<now, store, today, cached, wrote, lastWrite>>
  /\ UNCHANGED notGet

\* The findOneAndUpdate of the call takes effect in the store.
Upsert(c) ==
  /\ pc[c] = "upsert"
  /\ store' = FindOneAndUpdate(store, today[c], rates[c])
  /\ wrote' = [wrote EXCEPT ![c] = TRUE]
  /\ lastWrite' = [lastWrite EXCEPT ![today[c]] = [valid |-> TRUE, snap |-> rates[c]]]
  /\ pc' = [pc EXCEPT ![c] = "written"]
  /\ UNCHANGED <<now, today, cached, rates, result, err, path, resp, html>>
  /\ UNCHANGED notGet

\* The await of findOneAndUpdate resumes: return rates.
Return(c) ==
  /\ pc[c] = "written"
  /\ pc' = [pc EXCEPT ![c] = "done"]
  /\ path' = [path EXCEPT ![c] = "fresh"]
  /\ result' = [result EXCEPT ![c] = rates[c]]
  /\ UNCHANGED <<now, store, today, cached, rates, err, resp, html, wrote, lastWrite>>
  /\ UNCHANGED notGet

\* The caller is done with the call; the next call starts afresh.
Finish(c) ==
  /\ pc[c] \in {"done", "failed"}
  /\ pc' = [pc EXCEPT ![c] = "idle"]
  /\ today' = [today EXCEPT ![c] = 0]
  /\ cached' = [cached EXCEPT ![c] = NoDoc]
  /\ rates' = [rates EXCEPT ![c] = EmptyMap]
  /\ result' = [result EXCEPT ![c] = EmptyMap]
  /\ err' = [err EXCEPT ![c] = "none"]
  /\ path' = [path EXCEPT ![c] = "none"]
  /\ resp' = [resp EXCEPT ![c] = "none"]
  /\ html' = [html EXCEPT ![c] = <<>>]
  /\ wrote' = [wrote EXCEPT ![c] = FALSE]
  /\ UNCHANGED <<now, store, lastWrite>>
  /\ UNCHANGED notGet

\* No call is between its start and its end.
Quiet == \A c \in Calls : pc[c] \in {"idle", "done", "failed"}

\* A call that starts when no other call is running.
BeginSeq(c) == Quiet /\ Begin(c)


\* ------------------------------------------ getRates, the JSON-source variant
\* The parsed response: the entries of data.Valute, each with its code and
\* its Value and Nominal (Nullv: the field is not there); <<>> when the
\* response has no Valute.  Value is in units of 1/RScale, Nominal a count.
ValuteEntry(code, value, nominal) ==
  [t |-> "valute", a |-> code, Value |-> value, Nominal |-> nominal]

\* valute?.USD and the like: undefined fields when the entry is not there.
ValuteOf(data, code) ==
  LET i == IndexOf(data, 1, LAMBDA x : x.t = "valute" /\ x.a = code)
  IN IF i = 0 THEN ValuteEntry(code, Nullv, Nullv) ELSE data[i]

\* Mutant of normalizeRate: a missing Nominal counts as 1.
normalizeRateBug(entry) ==
  IF ~Truthy(entry.Value) THEN [ok |-> FALSE, v |-> 0]
  ELSE IF ~Truthy(entry.Nominal) THEN [ok |-> TRUE, v |-> entry.Value.v]
  ELSE [ok |-> TRUE, v |-> entry.Value.v \div entry.Nominal.v]

\* normalizeRate: ok = FALSE stands for the thrown error.
normalizeRate(entry) ==
  IF ~Truthy(entry.Value) \/ ~Truthy(entry.Nominal) THEN [ok |-> FALSE, v |-> 0]
  ELSE [ok |-> TRUE, v |-> entry.Value.v \div entry.Nominal.v]

\* What the JSON source can answer with: all three entries; JPY without
\* Nominal; no EUR entry; USD with Value 0; no Valute at all.
JsonFull ==
  << ValuteEntry("USD", Num(805000), Num(1)), ValuteEntry("EUR", Num(941000), Num(1)),
     ValuteEntry("JPY", Num(532000), Num(100)) >>
JsonNoNominal ==
  << ValuteEntry("USD", Num(805000), Num(1)), ValuteEntry("EUR", Num(941000), Num(1)),
     ValuteEntry("JPY", Num(532000), Nullv) >>
JsonNoEur ==
  << ValuteEntry("USD", Num(805000), Num(1)), ValuteEntry("JPY", Num(532000), Num(100)) >>
JsonZeroValue ==
  << ValuteEntry("USD", Num(0), Num(1)), ValuteEntry("EUR", Num(941000), Num(1)),
     ValuteEntry("JPY", Num(532000), Num(100)) >>
JsonDocs == {JsonFull, JsonNoNominal, JsonNoEur, JsonZeroValue, <<>>}

\* The response is ok and its JSON is data: the three normalizeRate calls;
\* the first that throws ends the call (this variant has no fallback).
FetchJsonOk(c, data) ==
  /\ pc[c] = "fetch"
  /\ resp' = [resp EXCEPT ![c] = "ok"]
  /\ html' = [html EXCEPT ![c] = data]
  /\ LET usd == normalizeRate(ValuteOf(data, "USD"))
         eur == normalizeRate(ValuteOf(data, "EUR"))
         jpy == normalizeRate(ValuteOf(data, "JPY"))
     IN IF usd.ok /\ eur.ok /\ jpy.ok
        THEN /\ rates' = [rates EXCEPT ![c] = Snapshot(usd.v, eur.v, jpy.v).rates]
             /\ pc' = [pc EXCEPT ![c] = "upsert"]
             /\ UNCHANGED err
        ELSE /\ pc' = [pc EXCEPT ![c] = "failed"]
             /\ err' = [err EXCEPT ![c] = "fields"]
             /\ UNCHANGED rates
  /\ UNCHANGED <<now, store, today, cached, result, path, wrote, lastWrite>>
  /\ UNCHANGED notGet

\* ------------------------------------------------------------- calculator
\* Amounts of money are exact: whole roubles w and f units of 1/MUnit.
MUnit == 10 * RScale
Money(w, f) == [w |-> w, f |-> f]
MInt(n) == Money(n, 0)
MAdd(a, b) == Money(a.w + b.w + ((a.f + b.f) \div MUnit), (a.f + b.f) % MUnit)
MLeq(a, b) == a.w < b.w \/ (a.w = b.w /\ a.f <= b.f)
\* a / 2 (exact when the number of units is even).
MHalf(a) ==
  IF a.w % 2 = 0 THEN Money(a.w \div 2, a.f \div 2)
  ELSE Money(a.w \div 2, (a.f + MUnit) \div 2)

\* amount * rate, for an amount given in tenths and a rate in 1/RScale: the
\* product is split so that no partial product leaves TLC's integers.
MulRate(amount10, rate) ==
  LET a1 == amount10 \div RScale
      a0 == amount10 % RScale
      r1 == rate \div RScale
      r0 == rate % RScale
      mid == a1 * r0 + a0 * r1
      lo == a0 * r0
      fsum == ((mid % 10) * RScale) + (lo % MUnit)
  IN Money((a1 * r1 * 1000) + (mid \div 10) + (lo \div MUnit) + (fsum \div MUnit),
           fsum % MUnit)

BASE_UTILIZATION == 20000

Thrown(kind) == [ok |-> FALSE, error |-> kind, v |-> MInt(0)]
Value(m) == [ok |-> TRUE, error |-> "none", v |-> m]

\* Mutant of convertToRub: a missing rate counts as 0 instead of throwing.
convertToRubBug(amount10, currency, r) ==
  IF currency \notin DOMAIN r \/ r[currency] = 0
  THEN Value(MInt(0))
  ELSE Value(MulRate(amount10, r[currency]))

\* convertToRub(amount, currency, rates), the amount in tenths.
convertToRub(amount10, currency, r) ==
  IF currency \notin DOMAIN r \/ r[currency] = 0
  THEN Thrown("currency")
  ELSE Value(MulRate(amount10, r[currency]))

\* Mutant of calcDutyEur: < in place of <=.
calcDutyEurBug(engineVolume) ==
  IF engineVolume < 1000 THEN 15 * engineVolume
  ELSE IF engineVolume < 1500 THEN 17 * engineVolume
  ELSE IF engineVolume < 1800 THEN 25 * engineVolume
  ELSE IF engineVolume < 2300 THEN 27 * engineVolume
  ELSE IF engineVolume < 3000 THEN 30 * engineVolume
  ELSE 36 * engineVolume

\* calcDutyEur, in tenths of a euro.
calcDutyEur(engineVolume) ==
  IF engineVolume <= 1000 THEN 15 * engineVolume
  ELSE IF engineVolume <= 1500 THEN 17 * engineVolume
  ELSE IF engineVolume <= 1800 THEN 25 * engineVolume
  ELSE IF engineVolume <= 2300 THEN 27 * engineVolume
  ELSE IF engineVolume <= 3000 THEN 30 * engineVolume
  ELSE 36 * engineVolume

\* Mutant of calcCustomsFee: < in place of <=.
calcCustomsFeeBug(declaredValueRub) ==
  IF ~MLeq(MInt(200000), declaredValueRub) THEN 1067
  ELSE IF ~MLeq(MInt(450000), declaredValueRub) THEN 2134
  ELSE IF ~MLeq(MInt(1200000), declaredValueRub) THEN 4269
  ELSE IF ~MLeq(MInt(2700000), declaredValueRub) THEN 11746
  ELSE IF ~MLeq(MInt(5000000), declaredValueRub) THEN 23491
  ELSE IF ~MLeq(MInt(10000000), declaredValueRub) THEN 46982
  ELSE 93965

calcCustomsFee(declaredValueRub) ==
  IF MLeq(declaredValueRub, MInt(200000)) THEN 1067
  ELSE IF MLeq(declaredValueRub, MInt(450000)) THEN 2134
  ELSE IF MLeq(declaredValueRub, MInt(1200000)) THEN 4269
  ELSE IF MLeq(declaredValueRub, MInt(2700000)) THEN 11746
  ELSE IF MLeq(declaredValueRub, MInt(5000000)) THEN 23491
  ELSE IF MLeq(declaredValueRub, MInt(10000000)) THEN 46982
  ELSE 93965

\* Math.round of a value given in tenths.
RoundTenths(x10) == (x10 + 5) \div 10

calculateUtilFee(ageYears, powerHp, engineVolumeCc, personalUse) ==
  IF powerHp <= 160 THEN (IF ageYears <= 3 THEN 3400 ELSE 5200)
  ELSE IF engineVolumeCc <= 2000 /\ ageYears > 3
  THEN RoundTenths(BASE_UTILIZATION * 622)
  ELSE IF engineVolumeCc <= 2000 /\ ageYears <= 3
  THEN RoundTenths(BASE_UTILIZATION * 375)
  ELSE RoundTenths(BASE_UTILIZATION * 622)

\* Mutant of ageCategoryToYears: the lower end of the 3to5 bracket.
ageCategoryToYearsBug(age) ==
  IF age = "under3" THEN 3 ELSE IF age = "3to5" THEN 3 ELSE 6

ageCategoryToYears(age) ==
  IF age = "under3" THEN 3 ELSE IF age = "3to5" THEN 4 ELSE 6

NoDelivery ==
  [ok |-> FALSE, totalMin |-> MInt(0), totalMax |-> MInt(0),
   jpExpensesRub |-> MInt(0), freightRub |-> MInt(0),
   ruProcessingMinRub |-> 0, ruProcessingMaxRub |-> 0,
   companyFeeMinRub |-> 0, companyFeeMaxRub |-> 0]

\* Mutant of calcDelivery: totalMax takes the lower bound of the company fee.
calcDeliveryBug(config, r) ==
  LET jp == convertToRub(10 * config.jpExpensesYen, "JPY", r)
      fr == convertToRub(10 * config.freightUsd, "USD", r)
  IN IF ~jp.ok \/ ~fr.ok THEN NoDelivery
     ELSE [ok |-> TRUE,
           totalMin |-> MAdd(MAdd(jp.v, fr.v),
                             MInt(config.ruProcessingMinRub + config.companyFeeMinRub)),
           totalMax |-> MAdd(MAdd(jp.v, fr.v),
                             MInt(config.ruProcessingMaxRub + config.companyFeeMinRub)),
           jpExpensesRub |-> jp.v, freightRub |-> fr.v,
           ruProcessingMinRub |-> config.ruProcessingMinRub,
           ruProcessingMaxRub |-> config.ruProcessingMaxRub,
           companyFeeMinRub |-> config.companyFeeMinRub,
           companyFeeMaxRub |-> config.companyFeeMaxRub]

\* calcDelivery; ok = FALSE when one of its two conversions throws.
calcDelivery(config, r) ==
  LET jp == convertToRub(10 * config.jpExpensesYen, "JPY", r)
      fr == convertToRub(10 * config.freightUsd, "USD", r)
  IN IF ~jp.ok \/ ~fr.ok THEN NoDelivery
     ELSE [ok |-> TRUE,
           totalMin |-> MAdd(MAdd(jp.v, fr.v),
                             MInt(config.ruProcessingMinRub + config.companyFeeMinRub)),
           totalMax |-> MAdd(MAdd(jp.v, fr.v),
                             MInt(config.ruProcessingMaxRub + config.companyFeeMaxRub)),
           jpExpensesRub |-> jp.v, freightRub |-> fr.v,
           ruProcessingMinRub |-> config.ruProcessingMinRub,
           ruProcessingMaxRub |-> config.ruProcessingMaxRub,
           companyFeeMinRub |-> config.companyFeeMinRub,
           companyFeeMaxRub |-> config.companyFeeMaxRub]

NoBreakdown ==
  [priceRub |-> MInt(0), dutyRub |-> MInt(0), dutyEur |-> 0, feeRub |-> 0,
   recyclingRub |-> 0, deliveryTotalRub |-> MInt(0), deliveryDetails |-> NoDelivery]

\* What a call of calculate ends with: a result, or the error it threw.
CalcThrows(kind) ==
  [status |-> "thrown", error |-> kind, total |-> MInt(0), breakdown |-> NoBreakdown]

\* Mutant of calculate: the price is converted before the age is looked at.
calculateBug(input, r, deliveryConfig) ==
  IF ~convertToRub(10 * input.price, input.currency, r).ok THEN CalcThrows("currency")
  ELSE IF input.age # "3to5" THEN CalcThrows("bracket")
  ELSE CalcThrows("currency")

\* Mutant of calculate: the customs fee is left out of the total.
calculateNoFee(input, r, deliveryConfig) ==
  IF input.age # "3to5" THEN CalcThrows("bracket")
  ELSE
    LET priceRub == convertToRub(10 * input.price, input.currency, r)
        dutyEur == calcDutyEur(input.engineVolume)
        dutyRub == convertToRub(dutyEur, "EUR", r)
        feeRub == calcCustomsFee(priceRub.v)
        recyclingRub == calculateUtilFee(ageCategoryToYears(input.age),
                                         input.horsepower, input.engineVolume, TRUE)
        deliveryDetails == calcDelivery(deliveryConfig, r)
        deliveryTotalAvg == MHalf(MAdd(deliveryDetails.totalMin, deliveryDetails.totalMax))
    IN IF ~priceRub.ok \/ ~dutyRub.ok \/ ~deliveryDetails.ok THEN CalcThrows("currency")
       ELSE [status |-> "returned", error |-> "none",
             total |-> MAdd(MAdd(MAdd(priceRub.v, dutyRub.v),
                                 MInt(recyclingRub)), deliveryTotalAvg),
             breakdown |-> [priceRub |-> priceRub.v, dutyRub |-> dutyRub.v,
                            dutyEur |-> dutyEur, feeRub |-> feeRub,
                            recyclingRub |-> recyclingRub,
                            deliveryTotalRub |-> deliveryTotalAvg,
                            deliveryDetails |-> deliveryDetails]]

calculate(input, r, deliveryConfig) ==
  IF input.age # "3to5" THEN CalcThrows("bracket")
  ELSE
    LET priceRub == convertToRub(10 * input.price, input.currency, r)
        dutyEur == calcDutyEur(input.engineVolume)
        dutyRub == convertToRub(dutyEur, "EUR", r)
        feeRub == calcCustomsFee(priceRub.v)
        recyclingRub == calculateUtilFee(ageCategoryToYears(input.age),
                                         input.horsepower, input.engineVolume, TRUE)
        deliveryDetails == calcDelivery(deliveryConfig, r)
        deliveryTotalAvg == MHalf(MAdd(deliveryDetails.totalMin, deliveryDetails.totalMax))
    IN IF ~priceRub.ok \/ ~dutyRub.ok \/ ~deliveryDetails.ok THEN CalcThrows("currency")
       ELSE [status |-> "returned", error |-> "none",
             total |-> MAdd(MAdd(MAdd(priceRub.v, dutyRub.v),
                                 MInt(feeRub + recyclingRub)), deliveryTotalAvg),
             breakdown |-> [priceRub |-> priceRub.v, dutyRub |-> dutyRub.v,
                            dutyEur |-> dutyEur, feeRub |-> feeRub,
                            recyclingRub |-> recyclingRub,
                            deliveryTotalRub |-> deliveryTotalAvg,
                            deliveryDetails |-> deliveryDetails]]


\* The inputs calculate is exercised with.
Prices ==
  {150000, 200000, 200001, 450000, 450001, 1200000, 1200001, 2700000, 2700001,
   5000000, 5000001, 10000000, 10000001}
Ages == {"under3", "3to5", "over5"}
EngineTypes == {"ICE", "EV"}
Volumes == {660, 1000, 1001, 1500, 1501, 1800, 1801, 2000, 2001, 2300, 2301, 3000, 3001}
Horsepowers == {64, 160, 161}

RatesFull == [c \in Codes |->
                CASE c = "RUB" -> RScale [] c = "USD" -> 805000
                  [] c = "EUR" -> 941000 [] c = "JPY" -> 5320]
Without(r, code) == [c \in DOMAIN r \ {code} |-> r[c]]
CalcRates ==
  {RatesFull, Without(RatesFull, "USD"), Without(RatesFull, "JPY"),
   Without(RatesFull, "RUB"), [RatesFull EXCEPT !["EUR"] = 0]}

\* The defaults of getDeliveryConfig, a configuration an operator set, and
\* one whose processing bounds are the wrong way round.
DeliveryDefaults ==
  [jpExpensesYen |-> 241000, freightUsd |-> 300,
   ruProcessingMinRub |-> 60000, ruProcessingMaxRub |-> 100000,
   companyFeeMinRub |-> 50000, companyFeeMaxRub |-> 100000]
DeliveryConfigs ==
  {DeliveryDefaults,
   [DeliveryDefaults EXCEPT !.jpExpensesYen = 100001, !.ruProcessingMaxRub = 60001],
   [DeliveryDefaults EXCEPT !.ruProcessingMinRub = 200000, !.ruProcessingMaxRub = 60000]}

CalcInputs ==
  [price : Prices, currency : Codes, age : Ages, engineType : EngineTypes,
   engineVolume : Volumes, horsepower : Horsepowers]

NoInput ==
  [price |-> 0, currency |-> "RUB", age |-> "3to5", engineType |-> "ICE",
   engineVolume |-> 0, horsepower |-> 0]
NotCalled ==
  [status |-> "none", error |-> "none", total |-> MInt(0), breakdown |-> NoBreakdown]

CalcIdle ==
  /\ cin = NoInput
  /\ crates = EmptyMap
  /\ cconfig = DeliveryDefaults
  /\ cout = NotCalled

\* One call of calculate.
Calculate(input, r, config) ==
  /\ cout.status = "none"
  /\ cin' = input
  /\ crates' = r
  /\ cconfig' = config
  /\ cout' = calculate(input, r, config)
  /\ UNCHANGED <<getVars, parseVars, botVars>>

\* The caller is done with the result; the next call starts afresh.
CalcReset ==
  /\ cout.status # "none"
  /\ cin' = NoInput
  /\ crates' = EmptyMap
  /\ cconfig' = DeliveryDefaults
  /\ cout' = NotCalled
  /\ UNCHANGED <<getVars, parseVars, botVars>>

\* ------------------------------------------------- parseAtbRates on its own
\* The documents parseAtbRates is exercised with: a document is put together
\* from a part before the transfer section, the transfer section
\* (id="currencyTab4"), a section of another tab (id="currencyTab1") and the
\* hidden inputs, each part in one of its variants.
TableOf(usd, eur, jpy) ==
  << ValCell("USD"), Buy(<<"7", "0">>), Sale(usd),
     ValCell("EUR"), Buy(<<"8", "0">>), Sale(eur),
     ValCell("JPY"), Buy(<<"4", "0">>), Sale(jpy) >>

\* Before the transfer section: nothing, or an element that carries
\* id="currencyTab4" and no table (the next section starts after it).
BeforeParts == { <<>>, <<Item, TabId("currencyTab4")>> }

\* The transfer section: absent; with the three currencies; with a comma as
\* the decimal separator; without the JPY row; with a JPY sale text that is
\* no number.
TransferParts ==
  { <<>>,
    <<Item, TabId("currencyTab4")>>
      \o TableOf(<<"8", "0", ".", "5">>, <<"9", "4", ".", "1">>, <<"5", "3", ".", "2">>),
    <<Item, TabId("currencyTab4")>>
      \o TableOf(<<"8", "1">>, <<"9", "5", ",", "2", "5">>, <<"5", "4", ",", "0">>),
    <<Item, TabId("currencyTab4"),
      ValCell("USD"), Buy(<<"7", "0">>), Sale(<<"8", "0", ".", "5">>),
      ValCell("EUR"), Buy(<<"8", "0">>), Sale(<<"9", "4", ".", "1">>)>>,
    <<Item, TabId("currencyTab4")>>
      \o TableOf(<<"8", "0", ".", "5">>, <<"9", "4", ".", "1">>, <<"5", ".", "4", ".", "1">>) }

\* The section of another tab: absent, or with a table of its own.
OtherParts ==
  { <<>>,
    <<Item, TabId("currencyTab1")>>
      \o TableOf(<<"7", "1">>, <<"8", "3">>, <<"4", "7">>) }

\* The hidden inputs: none; all three with JPY for 100 yen; all three with JPY
\* for one yen and both names of USD; JPY at the threshold; EUR missing; a
\* usd2 value that is no number next to a usd1 value that is one; a usd2
\* input whose value is empty next to a usd1 value.
HiddenParts ==
  { <<>>,
    <<Item, Hidden("usd2", <<"8", "8">>), Hidden("eur2", <<"9", "9">>),
      Hidden("jpy2", <<"5", "3", ".", "2">>)>>,
    <<Item, Hidden("usd1", <<"8", "7">>), Hidden("usd2", <<"8", "8">>),
      Hidden("eur1", <<"9", "8">>), Hidden("jpy1", <<"0", ".", "5", "3">>)>>,
    <<Item, Hidden("usd2", <<"8", "8">>), Hidden("eur2", <<"9", "9">>),
      Hidden("jpy2", <<"5">>)>>,
    <<Item, Hidden("usd2", <<"8", "8">>), Hidden("jpy2", <<"5", "3", ".", "2">>)>>,
    <<Item, Hidden("usd1", <<"8", "7">>), Hidden("usd2", <<"8", ".", "8", ".">>),
      Hidden("eur2", <<"9", "9">>), Hidden("jpy2", <<"5", "3", ".", "2">>)>>,
    <<Item, Hidden("usd1", <<"8", "7">>), Hidden("usd2", <<>>),
      Hidden("eur2", <<"9", "9">>), Hidden("jpy2", <<"5", "3", ".", "2">>)>> }

ParseDocs ==
  { b \o t \o o \o h : b \in BeforeParts, t \in TransferParts,
                       o \in OtherParts, h \in HiddenParts }

NotParsed == [status |-> "none", rates |-> EmptyMap]

ParseIdle ==
  /\ pdoc = <<>>
  /\ pout = NotParsed

\* One call of parseAtbRates: it returns a snapshot or throws.
Parse(doc) ==
  /\ pout.status = "none"
  /\ pdoc' = doc
  /\ pout' = LET parsed == parseAtbRates(doc)
             IN IF parsed.ok THEN [status |-> "returned", rates |-> parsed.rates]
                ELSE [status |-> "thrown", rates |-> EmptyMap]
  /\ UNCHANGED <<getVars, calcVars, botVars>>

\* The caller is done with the answer; the next call starts afresh.
ParseReset ==
  /\ pout.status # "none"
  /\ pdoc' = <<>>
  /\ pout' = NotParsed
  /\ UNCHANGED <<getVars, calcVars, botVars>>


\* ------------------------------------------------------------ the dialogue
\* One chat session of the bot. grammy hands the updates of a chat to the
\* handlers one at a time, so a handler runs from its first line to its last
\* before the next update is looked at.
Steps == {"price", "age", "engineType", "volume", "power", "done"}

\* A text message: an optional number (in tenths) followed by an optional
\* word, as in "15000 USD", "2", "0.4", "1800" or "abc".
Text(num, word) == [num |-> num, word |-> word]
Words == {"", "USD", "ABC"}
Tenths == {0, 4, 10, 20, 30, 18000}
Whole(x) == x.k = "num" /\ x.v % 10 = 0
Texts ==
  { t \in [num : {NaNv} \cup {Num(v) : v \in Tenths}, word : Words] :
      /\ (t.word \in Codes => (t.num.k = "num" => Whole(t.num)))
      /\ ~(t.num.k = "NaN" /\ t.word = "") }

\* The data of a button press.
Callbacks ==
  [prefix : {"age:"}, val : Ages \cup {"bad"}]
    \cup [prefix : {"engine:"}, val : EngineTypes \cup {"bad"}]
    \cup [prefix : {"other:"}, val : {"bad"}]

\* Number(text.replace(",", ".")), in tenths.
NumberOf(t) == IF t.word = "" THEN t.num ELSE NaNv

\* Math.round of a positive number given in tenths.
MathRound(v10) == (v10 + 5) \div 10

\* parsePrice: digits followed by a currency code, the amount above zero.
parsePrice(t) ==
  IF t.word \notin Codes \/ t.num.k # "num" THEN [ok |-> FALSE, amount |-> 0, currency |-> "RUB"]
  ELSE IF ~Truthy(t.num) \/ t.num.v <= 0 THEN [ok |-> FALSE, amount |-> 0, currency |-> "RUB"]
  ELSE [ok |-> TRUE, amount |-> t.num.v \div 10, currency |-> t.word]

\* parseAge on the numeric forms "1", "2", "3".
parseAge(t) ==
  IF t.word # "" THEN [ok |-> FALSE, v |-> "none"]
  ELSE IF t.num = Num(10) THEN [ok |-> TRUE, v |-> "under3"]
  ELSE IF t.num = Num(20) THEN [ok |-> TRUE, v |-> "3to5"]
  ELSE IF t.num = Num(30) THEN [ok |-> TRUE, v |-> "over5"]
  ELSE [ok |-> FALSE, v |-> "none"]

\* parseEngineType on the numeric forms "1", "2".
parseEngineType(t) ==
  IF t.word # "" THEN [ok |-> FALSE, v |-> "none"]
  ELSE IF t.num = Num(10) THEN [ok |-> TRUE, v |-> "ICE"]
  ELSE IF t.num = Num(20) THEN [ok |-> TRUE, v |-> "EV"]
  ELSE [ok |-> FALSE, v |-> "none"]

\* The message passes the validation of the handler of step s (ghost: the
\* handlers below do their own parsing).
ValidFor(s, t) ==
  CASE s = "price" -> parsePrice(t).ok
    [] s = "age" -> parseAge(t).ok
    [] s = "engineType" -> parseEngineType(t).ok
    [] s \in {"volume", "power"} -> Truthy(NumberOf(t)) /\ NumberOf(t).v > 0
    [] OTHER -> FALSE

\* The draft with one more field set.
SetField(draft, field, v) ==
  [f \in DOMAIN draft \cup {field} |-> IF f = field THEN v ELSE draft[f]]

InputFields == {"price", "currency", "age", "engineType", "engineVolume", "horsepower"}

isInputComplete(draft) == InputFields \subseteq DOMAIN draft

\* Mutant of AgeSupported: every age bracket goes on to the computation.
AgeSupportedBug(draft) == TRUE

\* The bracket test of handlePower.
AgeSupported(draft) == draft["age"] = "3to5"

\* What a handler did: the step it found, whether its message was valid for
\* that step, its reply, the services it called, whether a history record
\* was created, what failed and who caught it.
Did(handler, at, valid, reply, calls, saved, failure, caught) ==
  [handler |-> handler, at |-> at, valid |-> valid, reply |-> reply, calls |-> calls,
   saved |-> saved, failure |-> failure, caught |-> caught]

Replied(handler, at, valid, reply) ==
  Did(handler, at, valid, reply, {}, FALSE, "none", "none")

\* What getRates and getDeliveryConfig can answer the handler with.
RatesOutcomes ==
  {[ok |-> FALSE, rates |-> EmptyMap], [ok |-> TRUE, rates |-> RatesFull],
   [ok |-> TRUE, rates |-> Without(RatesFull, "USD")]}
ConfigOutcomes ==
  {[ok |-> FALSE, config |-> DeliveryDefaults], [ok |-> TRUE, config |-> DeliveryDefaults]}

\* How the service calls of one text handler can go: upsertUser, getRates,
\* getDeliveryConfig and saveHistory each succeed or reject; what comes after
\* the first rejection is never called, so it is fixed to success.
Outcomes ==
  { o \in [userOk : BOOLEAN, ratesOut : RatesOutcomes, configOut : ConfigOutcomes,
           saveOk : BOOLEAN] :
      /\ (~o.userOk => o.ratesOut.ok /\ o.ratesOut.rates = RatesFull /\ o.configOut.ok)
      /\ (~o.ratesOut.ok => o.configOut.ok)
      /\ (~o.configOut.ok => o.saveOk) }

\* Mutant of Compute: the history record is created before calculate runs.
ComputeBug(draft, ratesOut, configOut, saveOk) ==
  IF ~ratesOut.ok THEN [calls |-> {"getRates"}, saved |-> FALSE, failure |-> "getRates"]
  ELSE IF ~configOut.ok
    THEN [calls |-> {"getRates", "getDeliveryConfig"}, saved |-> FALSE,
          failure |-> "getDeliveryConfig"]
  ELSE IF calculate(draft, ratesOut.rates, configOut.config).status # "returned"
    THEN [calls |-> {"getRates", "getDeliveryConfig", "saveHistory", "calculate"},
          saved |-> saveOk, failure |-> "calculate"]
  ELSE [calls |-> {"getRates", "getDeliveryConfig", "calculate", "saveHistory"},
        saved |-> saveOk, failure |-> IF saveOk THEN "none" ELSE "saveHistory"]

\* The tail of handlePower: getRates, getDeliveryConfig, calculate and
\* saveHistory in this order, stopping at the first one that throws.
Compute(draft, ratesOut, configOut, saveOk) ==
  IF ~ratesOut.ok THEN [calls |-> {"getRates"}, saved |-> FALSE, failure |-> "getRates"]
  ELSE IF ~configOut.ok
    THEN [calls |-> {"getRates", "getDeliveryConfig"}, saved |-> FALSE,
          failure |-> "getDeliveryConfig"]
  ELSE IF calculate(draft, ratesOut.rates, configOut.config).status # "returned"
    THEN [calls |-> {"getRates", "getDeliveryConfig", "calculate"}, saved |-> FALSE,
          failure |-> "calculate"]
  ELSE [calls |-> {"getRates", "getDeliveryConfig", "calculate", "saveHistory"},
        saved |-> saveOk, failure |-> IF saveOk THEN "none" ELSE "saveHistory"]

\* What the text handler did when nothing was called and nothing failed.
Answer(t, reply) == Replied("text", session.step, ValidFor(session.step, t), reply)

\* A new session: step done, nothing collected.
BotIdle ==
  /\ session = [step |-> "done", input |-> EmptyMap]
  /\ last = Replied("none", "done", TRUE, "none")

\* The /start command. upsertUser runs before the session is touched and
\* outside any try: when it rejects, the error goes to bot.catch.
BotStart(userOk) ==
  /\ IF userOk
     THEN /\ session' = [step |-> "price", input |-> EmptyMap]
          /\ last' = Replied("start", session.step, TRUE, "welcome")
     ELSE /\ session' = session
          /\ last' = Did("start", session.step, TRUE, "none",
                          {}, FALSE, "upsertUser", "bot.catch")
  /\ UNCHANGED <<getVars, calcVars, parseVars>>

handlePrice(t) ==
  LET parsed == parsePrice(t)
  IN IF ~parsed.ok
     THEN /\ session' = session
          /\ last' = Answer(t, "again")
     ELSE /\ session' = [step |-> "age",
                         input |-> SetField(SetField(session.input, "price", parsed.amount),
                                            "currency", parsed.currency)]
          /\ last' = Answer(t, "next")

handleAge(t) ==
  LET age == parseAge(t)
  IN IF ~age.ok
     THEN /\ session' = session
          /\ last' = Answer(t, "again")
     ELSE /\ session' = [step |-> "engineType", input |-> SetField(session.input, "age", age.v)]
          /\ last' = Answer(t, "next")

handleEngineType(t) ==
  LET engineType == parseEngineType(t)
  IN IF ~engineType.ok
     THEN /\ session' = session
          /\ last' = Answer(t, "again")
     ELSE /\ session' = [step |-> "volume",
                         input |-> SetField(session.input, "engineType", engineType.v)]
          /\ last' = Answer(t, "next")

handleVolume(t) ==
  LET value == NumberOf(t)
  IN IF ~Truthy(value) \/ value.v <= 0
     THEN /\ session' = session
          /\ last' = Answer(t, "again")
     ELSE /\ session' = [step |-> "power",
                         input |-> SetField(session.input, "engineVolume", MathRound(value.v))]
          /\ last' = Answer(t, "next")

handlePower(t, ratesOut, configOut, saveOk) ==
  LET value == NumberOf(t)
  IN IF ~Truthy(value) \/ value.v <= 0
     THEN /\ session' = session
          /\ last' = Answer(t, "again")
     ELSE LET draft == SetField(session.input, "horsepower", MathRound(value.v))
          IN IF ~isInputComplete(draft)
             THEN /\ session' = [step |-> "price", input |-> draft]
                  /\ last' = Answer(t, "incomplete")
             ELSE IF ~AgeSupported(draft)
             THEN /\ session' = [step |-> "done", input |-> draft]
                  /\ last' = Answer(t, "unsupported")
             ELSE LET did == Compute(draft, ratesOut, configOut, saveOk)
                  IN /\ session' = [step |-> "done", input |-> draft]
                     /\ last' = IF did.failure = "none"
                                THEN Did("text", session.step, TRUE, "result",
                                         did.calls, did.saved, "none", "none")
                                ELSE Did("text", session.step, TRUE, "error",
                                         did.calls, did.saved, did.failure, "handler")

\* The handler of a text message, try and catch included.
BotText(t, userOk, ratesOut, configOut, saveOk) ==
  /\ IF ~userOk
     THEN /\ session' = session
          /\ last' = Did("text", session.step, ValidFor(session.step, t), "error",
                          {}, FALSE, "upsertUser", "handler")
     ELSE CASE session.step = "price" -> handlePrice(t)
            [] session.step = "age" -> handleAge(t)
            [] session.step = "engineType" -> handleEngineType(t)
            [] session.step = "volume" -> handleVolume(t)
            [] session.step = "power" -> handlePower(t, ratesOut, configOut, saveOk)
            [] OTHER -> /\ session' = session
                        /\ last' = Answer(t, "useStart")
  /\ UNCHANGED <<getVars, calcVars, parseVars>>

handleAgeSelection(data) ==
  IF data.val \notin {"under3", "3to5", "over5"}
  THEN /\ session' = session
       /\ last' = Replied("callback", session.step, FALSE, "badChoice")
  ELSE /\ session' = [step |-> "engineType", input |-> SetField(session.input, "age", data.val)]
       /\ last' = Replied("callback", session.step, TRUE, "chosen")

handleEngineSelection(data) ==
  IF data.val \notin {"ICE", "EV"}
  THEN /\ session' = session
       /\ last' = Replied("callback", session.step, FALSE, "badChoice")
  ELSE /\ session' = [step |-> "volume",
                      input |-> SetField(session.input, "engineType", data.val)]
       /\ last' = Replied("callback", session.step, TRUE, "chosen")

\* The handler of a button press, try and catch included.
BotCallback(data, userOk) ==
  /\ IF ~userOk
     THEN /\ session' = session
          /\ last' = Did("callback", session.step, data.val # "bad", "alert",
                          {}, FALSE, "upsertUser", "handler")
     ELSE IF data.prefix = "age:" THEN handleAgeSelection(data)
     ELSE IF data.prefix = "engine:" THEN handleEngineSelection(data)
     ELSE /\ session' = session
          /\ last' = Replied("callback", session.step, FALSE, "answered")
  /\ UNCHANGED <<getVars, calcVars, parseVars>>


\* ---------------------------------------------------------- specifications
Init == GetInit /\ CalcIdle /\ ParseIdle /\ BotIdle

\* Concurrent calls: the latest returned value is not tracked.
Untracked == UNCHANGED lastReturn

\* Sequential calls: lastReturn takes the value a call returns in this step.
TrackReturn ==
  lastReturn' =
    IF \E c \in Calls : pc[c] # "done" /\ pc'[c] = "done"
    THEN LET c == CHOOSE k \in Calls : pc[k] # "done" /\ pc'[k] = "done"
         IN [valid |-> TRUE, date |-> today'[c], snap |-> result'[c]]
    ELSE lastReturn

\* getRates with calls that may overlap.
Next ==
  \/ Tick /\ Untracked
  \/ \E c \in Calls : Begin(c) /\ Untracked
  \/ \E c \in Calls, kind \in {"rejected", "notok"} : FetchFails(c, kind) /\ Untracked
  \/ \E c \in Calls, text \in FetchDocs : FetchOk(c, text) /\ Untracked
  \/ \E c \in Calls : Upsert(c) /\ Untracked
  \/ \E c \in Calls : Return(c) /\ Untracked
  \/ \E c \in Calls : Finish(c) /\ Untracked

Spec == Init /\ [][Next]_vars

\* getRates with one call at a time.
NextSeq ==
  \/ Tick /\ TrackReturn
  \/ \E c \in Calls : BeginSeq(c) /\ TrackReturn
  \/ \E c \in Calls, kind \in {"rejected", "notok"} : FetchFails(c, kind) /\ TrackReturn
  \/ \E c \in Calls, text \in FetchDocs : FetchOk(c, text) /\ TrackReturn
  \/ \E c \in Calls : Upsert(c) /\ TrackReturn
  \/ \E c \in Calls : Return(c) /\ TrackReturn
  \/ \E c \in Calls : Finish(c) /\ TrackReturn

SpecSeq == Init /\ [][NextSeq]_vars

\* The JSON-source variant of getRates with one call at a time.
NextJson ==
  \/ Tick /\ Untracked
  \/ \E c \in Calls : BeginSeq(c) /\ Untracked
  \/ \E c \in Calls, kind \in {"rejected", "notok"} : FetchFails(c, kind) /\ Untracked
  \/ \E c \in Calls, data \in JsonDocs : FetchJsonOk(c, data) /\ Untracked
  \/ \E c \in Calls : Upsert(c) /\ Untracked
  \/ \E c \in Calls : Return(c) /\ Untracked
  \/ \E c \in Calls : Finish(c) /\ Untracked

SpecJson == Init /\ [][NextJson]_vars

\* calculate on every input, rates and delivery configuration of the sets above.
CalcInit ==
  /\ GetInit
  /\ store = <<>>
  /\ CalcIdle
  /\ ParseIdle
  /\ BotIdle

CalcNext ==
  \/ /\ cout.status = "none"
     /\ \E input \in CalcInputs, r \in CalcRates, config \in DeliveryConfigs :
          Calculate(input, r, config)
  \/ CalcReset

SpecCalc == CalcInit /\ [][CalcNext]_vars

\* parseAtbRates on every document of ParseDocs.
ParseInit ==
  /\ GetInit
  /\ store = <<>>
  /\ CalcIdle
  /\ ParseIdle
  /\ BotIdle

ParseNext ==
  \/ /\ pout.status = "none"
     /\ \E doc \in ParseDocs : Parse(doc)
  \/ ParseReset

SpecParse == ParseInit /\ [][ParseNext]_vars

\* One chat session: any sequence of /start commands, text messages and
\* button presses, each service call succeeding or failing.
BotInit ==
  /\ GetInit
  /\ store = <<>>
  /\ CalcIdle
  /\ ParseIdle
  /\ BotIdle

BotNext ==
  \/ \E userOk \in BOOLEAN : BotStart(userOk)
  \/ \E t \in Texts, o \in Outcomes :
        BotText(t, o.userOk, o.ratesOut, o.configOut, o.saveOk)
  \/ \E data \in Callbacks, userOk \in BOOLEAN : BotCallback(data, userOk)

SpecBot == BotInit /\ [][BotNext]_vars


\* ------------------------------------------------------------- properties
\* A snapshot is complete: all four codes, each a positive number.
Complete(r) == \A code \in Codes : code \in DOMAIN r /\ r[code] > 0

\* The rates of the record the store holds for date d (EmptyMap if none).
Stored(d) == mapToObject(FindOne(store, d))
HasRecord(d) == FindOne(store, d).found
CountDate(d) == Cardinality({i \in DOMAIN store : store[i].date = d})

\* C1: every snapshot a call of getRates has returned, on every path, is
\* complete (all four codes, each a positive number).
C1_ReturnedSnapshotsComplete ==
  \A c \in Calls : pc[c] = "done" => Complete(result[c])

\* C2: a call whose findOne found a complete snapshot for its date returns
\* exactly that snapshot, without a fetch and without a write.
C2_CacheHit ==
  \A c \in Calls :
    (pc[c] # "idle" /\ cached[c].found /\ Complete(mapToObject(cached[c])))
      => /\ pc[c] = "done"
         /\ path[c] = "hit"
         /\ result[c] = cached[c].rates
         /\ resp[c] = "none"
         /\ ~wrote[c]

C2_Witness ==
  \E c \in Calls :
    /\ pc[c] = "done" /\ path[c] = "hit"
    /\ Complete(result[c])
    /\ lastWrite[today[c]].valid

\* C3: with one call at a time, a call that starts on a date on which the
\* latest call returned a snapshot returns that same snapshot at once, and no
\* call fetches on such a date.
C3_SecondCallSameSnapshot ==
  [][\A c \in Calls :
       /\ (pc[c] = "idle" /\ pc'[c] # "idle" /\ lastReturn.valid /\ lastReturn.date = now)
            => (pc'[c] = "done" /\ result'[c] = lastReturn.snap)
       /\ (pc[c] = "fetch" /\ lastReturn.valid /\ lastReturn.date = today[c])
            => resp'[c] = "none"]_vars

\* C4: with one call at a time, a call whose document was extracted has, once
\* its upsert is done, the extracted snapshot as the one record of its date,
\* and it returns that snapshot (it never fails after the extraction).
C4_FreshSnapshotStoredAndReturned ==
  \A c \in Calls :
    (resp[c] = "ok" /\ parseAtbRates(html[c]).ok)
      => /\ pc[c] \in {"upsert", "written", "done"}
         /\ rates[c] = parseAtbRates(html[c]).rates
         /\ pc[c] \in {"written", "done"}
              => (wrote[c] /\ CountDate(today[c]) = 1 /\ Stored(today[c]) = rates[c])
         /\ pc[c] = "done" => (path[c] = "fresh" /\ result[c] = Stored(today[c]))

C4_Witness ==
  \E c \in Calls :
    /\ pc[c] = "done" /\ path[c] = "fresh"
    /\ cached[c].found /\ ~Complete(mapToObject(cached[c]))
    /\ Stored(today[c]) = result[c]

\* C5: with one call at a time, the step in which a call's fetch answers with
\* a document from which nothing can be extracted ends the call: it returns
\* the record stored for its date as it is, if there is one, and throws the
\* parse error otherwise; the store is what it was when the call started.
C5_ParseFailureFallback ==
  [][\A c \in Calls :
       (pc[c] = "fetch" /\ resp'[c] = "ok" /\ ~parseAtbRates(html'[c]).ok)
         => /\ store' = store
            /\ ~wrote'[c]
            /\ FindOne(store', today[c]) = cached[c]
            /\ IF FindOne(store', today[c]).found
               THEN /\ pc'[c] = "done" /\ path'[c] = "fallback" /\ err'[c] = "none"
                    /\ result'[c] = mapToObject(FindOne(store', today[c]))
               ELSE /\ pc'[c] = "failed" /\ err'[c] = "parse"
                    /\ result'[c] = EmptyMap]_vars

C5_Witness ==
  \E c \in Calls :
    /\ resp[c] = "ok" /\ ~parseAtbRates(html[c]).ok
    /\ pc[c] = "done" /\ ~Complete(result[c]) /\ result[c] # EmptyMap

\* C6: a call whose fetch answered with a response that is not ok (the record
\* of its date being absent or incomplete) has thrown the source-unreachable
\* error: it returns nothing, extracts nothing and writes nothing.
C6_TransportFailure ==
  \A c \in Calls :
    resp[c] = "notok"
      => /\ ~(cached[c].found /\ Complete(mapToObject(cached[c])))
         /\ pc[c] = "failed"
         /\ err[c] = "unreachable"
         /\ path[c] = "none" /\ result[c] = EmptyMap
         /\ html[c] = <<>> /\ rates[c] = EmptyMap
         /\ ~wrote[c]

C6_Witness ==
  \E c \in Calls :
    resp[c] = "notok" /\ pc[c] = "failed" /\ cached[c].found /\ HasRecord(today[c])

\* C7: when two calls that overlap have both missed the cache and both
\* written for the same date, the store holds exactly one record for that
\* date, the record is complete, and it is in full the snapshot of the latest
\* writer.
Racers(d) == {c \in Calls : wrote[c] /\ today[c] = d}

C7_RaceLeavesOneCompleteRecord ==
  \A d \in Dates :
    Cardinality(Racers(d)) >= 2
      => /\ CountDate(d) = 1
         /\ Complete(Stored(d))
         /\ lastWrite[d].valid /\ Stored(d) = lastWrite[d].snap
         /\ \E text \in FetchDocs : Stored(d) = parseAtbRates(text).rates

C7_Witness ==
  \E d \in Dates :
    \E c1 \in Racers(d), c2 \in Racers(d) :
      /\ rates[c1] # rates[c2]
      /\ pc[c1] = "written" /\ pc[c2] = "written"
      /\ ~cached[c1].found /\ ~cached[c2].found
      /\ Stored(d) = rates[c2]

\* C8 as stated: once the store holds a complete snapshot for a date, no step
\* of any call changes the record of that date.
C8_CompleteNeverOverwritten ==
  [][\A d \in Dates :
       (HasRecord(d) /\ Complete(Stored(d))) => FindOne(store', d) = FindOne(store, d)]_vars

\* C8 as amended: the record of a date changes only by the upsert of a call
\* whose own findOne, at its start, found no record or an incomplete one for
\* that date (the record may have become complete since).
C8_OverwriteOnlyAfterMiss ==
  [][\A d \in Dates :
       FindOne(store', d) # FindOne(store, d)
         => \E c \in Calls :
              /\ pc[c] = "upsert" /\ pc'[c] = "written" /\ today[c] = d
              /\ ~(cached[c].found /\ Complete(mapToObject(cached[c])))]_vars

C8_Witness ==
  \E d \in Dates :
    \E c1 \in Racers(d), c2 \in Racers(d) :
      /\ c1 # c2
      /\ ~hasAll(mapToObject(cached[c1])) /\ ~hasAll(mapToObject(cached[c2]))
      /\ rates[c1] # rates[c2]
      /\ Stored(d) = rates[c2]

\* C9: calculate throws the unsupported-bracket error for every input whose
\* age is not 3to5, whatever the other fields and the rates are, and returns
\* no result; with age 3to5 it never throws that error.
C9_UnsupportedBracket ==
  cout.status # "none"
    => /\ cin.age # "3to5" => (cout.status = "thrown" /\ cout.error = "bracket")
       /\ cin.age = "3to5" => cout.error # "bracket"

C9_Witness ==
  /\ cin.age = "over5"
  /\ cin.currency \notin DOMAIN crates
  /\ cout.status = "thrown" /\ cout.error = "bracket"

\* C10: the customs fee of a result is one of the seven amounts, is the fee of
\* the bracket that ends at the price when the price is a boundary, is 93965
\* above 10000000, and is monotone: no smaller price has a larger fee and no
\* larger price a smaller one.
FeeBoundaries == {200000, 450000, 1200000, 2700000, 5000000, 10000000}
FeeEndingAt(b) ==
  CASE b = 200000 -> 1067 [] b = 450000 -> 2134 [] b = 1200000 -> 4269
    [] b = 2700000 -> 11746 [] b = 5000000 -> 23491 [] b = 10000000 -> 46982
FeeProbes ==
  {MInt(b) : b \in FeeBoundaries} \cup {Money(b, 1) : b \in FeeBoundaries}
    \cup {Money(b - 1, MUnit - 1) : b \in FeeBoundaries} \cup {MInt(0), MInt(20000000)}

C10_CustomsFeeSteps ==
  cout.status = "returned"
    => LET p == cout.breakdown.priceRub
           fee == cout.breakdown.feeRub
       IN /\ fee \in {1067, 2134, 4269, 11746, 23491, 46982, 93965}
          /\ \A b \in FeeBoundaries : p = MInt(b) => fee = FeeEndingAt(b)
          /\ ~MLeq(p, MInt(10000000)) => fee = 93965
          /\ \A q \in FeeProbes :
               /\ MLeq(p, q) => fee <= calcCustomsFee(q)
               /\ MLeq(q, p) => calcCustomsFee(q) <= fee

C10_Witness ==
  /\ cout.status = "returned"
  /\ cout.breakdown.priceRub = MInt(2700000)
  /\ cout.breakdown.feeRub = 11746

\* C11: in every result of calculate, dutyEur is the coefficient of the
\* displacement's bracket (1.5 up to and including 1000, 1.7 up to 1500, 2.5
\* up to 1800, 2.7 up to 2300, 3.0 up to 3000, 3.6 above) times the
\* displacement, so 1500 for displacement 1000, and dutyRub is dutyEur times
\* the EUR rate of the snapshot, whatever the currency of the price.
DutyCoefficient10(v) ==
  CASE v <= 1000 -> 15
    [] v > 1000 /\ v <= 1500 -> 17
    [] v > 1500 /\ v <= 1800 -> 25
    [] v > 1800 /\ v <= 2300 -> 27
    [] v > 2300 /\ v <= 3000 -> 30
    [] v > 3000 -> 36

C11_DutyByDisplacement ==
  cout.status = "returned"
    => /\ cout.breakdown.dutyEur = DutyCoefficient10(cin.engineVolume) * cin.engineVolume
       /\ cin.engineVolume = 1000 => cout.breakdown.dutyEur = 10 * 1500
       /\ cout.breakdown.dutyRub = MulRate(cout.breakdown.dutyEur, crates["EUR"])

C11_Witness ==
  /\ cout.status = "returned"
  /\ cin.engineVolume = 1500 /\ cin.currency = "JPY"
  /\ cout.breakdown.dutyEur = 10 * 2550
  /\ cout.breakdown.dutyRub = MInt(239955)

\* C12: in every result of calculate the recycling fee is 5200 when the
\* horsepower is at most 160 and 1244000 when it is above, for every
\* displacement; 3400 and 750000 (the amounts of age <= 3) never appear.
C12_RecyclingFee ==
  cout.status = "returned"
    => /\ cin.horsepower <= 160 => cout.breakdown.recyclingRub = 5200
       /\ cin.horsepower > 160 => cout.breakdown.recyclingRub = 1244000
       /\ cout.breakdown.recyclingRub \notin {3400, 750000}

C12_Witness ==
  /\ cout.status = "returned"
  /\ cin.horsepower = 161 /\ cin.engineVolume > 2000
  /\ cout.breakdown.recyclingRub = 1244000

\* C13: in every result of calculate the total is the sum of priceRub,
\* dutyRub, feeRub, recyclingRub and deliveryTotalRub and of nothing else,
\* priceRub is the price times the rate of its currency with its fraction
\* kept, and deliveryTotalRub is the midpoint of totalMin and totalMax.
C13_TotalIsSumOfComponents ==
  cout.status = "returned"
    => LET b == cout.breakdown
       IN /\ cout.total = MAdd(b.priceRub,
                               MAdd(b.dutyRub,
                                    MAdd(MInt(b.feeRub),
                                         MAdd(MInt(b.recyclingRub), b.deliveryTotalRub))))
          /\ b.priceRub = MulRate(10 * cin.price, crates[cin.currency])
          /\ MAdd(b.deliveryTotalRub, b.deliveryTotalRub)
               = MAdd(b.deliveryDetails.totalMin, b.deliveryDetails.totalMax)

C13_Witness ==
  /\ cout.status = "returned"
  /\ cin.currency = "JPY" /\ cin.price = 200001
  /\ cout.breakdown.priceRub = Money(106400, 53200)
  /\ cout.total.f # 0

\* C14: in every result of calculate, totalMin is jpExpensesYen times the JPY
\* rate plus freightUsd times the USD rate plus the two min bounds, totalMax
\* the same with the two max bounds, deliveryTotalRub is half their sum, and
\* when both min bounds are at most their max bounds the midpoint lies
\* between totalMin and totalMax.
C14_DeliveryRange ==
  cout.status = "returned"
    => LET d == cout.breakdown.deliveryDetails
           mid == cout.breakdown.deliveryTotalRub
           converted == MAdd(MulRate(10 * cconfig.jpExpensesYen, crates["JPY"]),
                             MulRate(10 * cconfig.freightUsd, crates["USD"]))
       IN /\ d.totalMin = MAdd(converted, MAdd(MInt(cconfig.ruProcessingMinRub),
                                               MInt(cconfig.companyFeeMinRub)))
          /\ d.totalMax = MAdd(converted, MAdd(MInt(cconfig.ruProcessingMaxRub),
                                               MInt(cconfig.companyFeeMaxRub)))
          /\ MAdd(mid, mid) = MAdd(d.totalMin, d.totalMax)
          /\ (/\ cconfig.ruProcessingMinRub <= cconfig.ruProcessingMaxRub
              /\ cconfig.companyFeeMinRub <= cconfig.companyFeeMaxRub)
               => (MLeq(d.totalMin, mid) /\ MLeq(mid, d.totalMax))

C14_Witness ==
  /\ cout.status = "returned"
  /\ cconfig = DeliveryDefaults
  /\ cout.breakdown.deliveryDetails.totalMin = Money(262362, 0)
  /\ cout.breakdown.deliveryDetails.totalMax = Money(352362, 0)
  /\ cout.breakdown.deliveryTotalRub = Money(307362, 0)

\* C15 as the claim has it: a conversion returns amount times rate for every
\* code that is in the snapshot and throws the unknown-currency error for a
\* code that is not; calculate (age 3to5) throws that error, with no result,
\* exactly when the currency of the price, EUR, JPY or USD is not in the rates.
NeededCodes(input) == {input.currency, "EUR", "JPY", "USD"}

C15_ConvertOrUnknownCurrency ==
  (cout.status # "none" /\ cin.age = "3to5")
    => IF NeededCodes(cin) \subseteq DOMAIN crates
       THEN /\ cout.status = "returned"
            /\ cout.breakdown.priceRub = MulRate(10 * cin.price, crates[cin.currency])
       ELSE /\ cout.status = "thrown" /\ cout.error = "currency"
            /\ cout.total = MInt(0) /\ cout.breakdown = NoBreakdown

\* C15, amended: the conversion returns amount times rate for every code whose
\* rate is in the snapshot and is not 0, and throws the unknown-currency error
\* for a code that is absent or whose rate is 0; calculate surfaces the error
\* with no result when that is so for the price currency, EUR, JPY or USD.
C15_ConvertNeedsNonZeroRate ==
  (cout.status # "none" /\ cin.age = "3to5")
    => IF \A code \in NeededCodes(cin) : code \in DOMAIN crates /\ crates[code] # 0
       THEN /\ cout.status = "returned"
            /\ cout.breakdown.priceRub = MulRate(10 * cin.price, crates[cin.currency])
            /\ cout.breakdown.dutyRub = MulRate(cout.breakdown.dutyEur, crates["EUR"])
            /\ cout.breakdown.deliveryDetails.jpExpensesRub
                 = MulRate(10 * cconfig.jpExpensesYen, crates["JPY"])
            /\ cout.breakdown.deliveryDetails.freightRub
                 = MulRate(10 * cconfig.freightUsd, crates["USD"])
       ELSE /\ cout.status = "thrown" /\ cout.error = "currency"
            /\ cout.total = MInt(0) /\ cout.breakdown = NoBreakdown

C15_Witness ==
  /\ cout.status = "thrown" /\ cout.error = "currency"
  /\ cin.age = "3to5" /\ cin.currency = "RUB"
  /\ DOMAIN crates = Codes \ {"USD"}

\* ------------------------------------------------ properties of the parser
\* The places where the document carries id="<id>", and the section such a
\* place opens: up to the next currency-tabs__item.
LabelAt(text, id) == {i \in DOMAIN text : text[i].t = "tabid" /\ text[i].a = id}
FirstLabel(text, id) == CHOOSE i \in LabelAt(text, id) : \A j \in LabelAt(text, id) : i <= j
SectionAt(text, i) ==
  LET later == {j \in DOMAIN text : j > i /\ text[j].t = "item"}
  IN IF later = {} THEN SubSeq(text, i, Len(text))
     ELSE SubSeq(text, i, (CHOOSE j \in later : \A k \in later : j <= k) - 1)

\* The rate table of a section: the sale values of USD, EUR and JPY, JPY for
\* one yen; ok only when the section has all three.
TableIn(block) ==
  LET usd == parseSaleFromBlock(block, "USD")
      eur == parseSaleFromBlock(block, "EUR")
      jpy == parseSaleFromBlock(block, "JPY")
  IN IF Truthy(usd) /\ Truthy(eur) /\ Truthy(jpy)
     THEN Snapshot(usd.v, eur.v, jpy.v \div 100)
     ELSE NoRates

\* C16: for every document whose section labelled currencyTab4 (the section
\* at the label's first place) holds a valid table for USD, EUR and JPY,
\* parseAtbRates returns the snapshot of that table, sale values with JPY
\* divided by 100, also when the hidden inputs would give a snapshot with
\* other values.
C16_PrimaryStrategyFirst ==
  (pout.status # "none" /\ LabelAt(pdoc, "currencyTab4") # {}
     /\ TableIn(SectionAt(pdoc, FirstLabel(pdoc, "currencyTab4"))).ok)
    => /\ pout.status = "returned"
       /\ pout.rates = TableIn(SectionAt(pdoc, FirstLabel(pdoc, "currencyTab4"))).rates

C16_Witness ==
  /\ pout.status = "returned"
  /\ LabelAt(pdoc, "currencyTab4") # {}
  /\ TableIn(SectionAt(pdoc, FirstLabel(pdoc, "currencyTab4"))).ok
  /\ parseHiddenInputs(pdoc).ok
  /\ parseHiddenInputs(pdoc).rates["USD"] # pout.rates["USD"]
  /\ pout.rates["USD"] = 805000 /\ pout.rates["JPY"] = 5320

\* C17: when the label currencyTab4 is at more than one place of the
\* document, the section at its first place has no valid table and the
\* section at a later place has one, parseAtbRates returns the snapshot of
\* the table of the later section.
C17_LaterOccurrenceWithTable ==
  \A i \in LabelAt(pdoc, "currencyTab4") :
    (/\ pout.status # "none"
     /\ i # FirstLabel(pdoc, "currencyTab4")
     /\ ~TableIn(SectionAt(pdoc, FirstLabel(pdoc, "currencyTab4"))).ok
     /\ TableIn(SectionAt(pdoc, i)).ok)
      => (pout.status = "returned" /\ pout.rates = TableIn(SectionAt(pdoc, i)).rates)

\* C18 as the claim has it: in a document with hidden inputs only, a hidden
\* JPY value of 53.2 becomes the JPY rate as it is and a hidden JPY value of
\* 0.53 is multiplied by 100.
OnlyHidden(text) == \A i \in DOMAIN text : text[i].t \in {"hidden", "item", "tabid"}
HiddenJpy(text) == Coalesce(extract(text, "jpy2"), extract(text, "jpy1"))

C19_OneStrategyOrFailure ==
  pout.status # "none"
    => LET table == TableIn(sliceTab(pdoc, "currencyTab4"))
           hidden == parseHiddenInputs(pdoc)
       IN /\ pout.status = "thrown" <=> (~table.ok /\ ~hidden.ok)
          /\ pout.status = "returned"
               => /\ Complete(pout.rates)
                  /\ table.ok => pout.rates = table.rates
                  /\ ~table.ok => pout.rates = hidden.rates

C19_Witness ==
  /\ pout.status = "thrown"
  /\ Truthy(parseSaleFromBlock(sliceTab(pdoc, "currencyTab4"), "USD"))
  /\ Truthy(parseSaleFromBlock(sliceTab(pdoc, "currencyTab4"), "EUR"))
  /\ Truthy(HiddenJpy(pdoc))
  /\ LabelAt(pdoc, "currencyTab4") # {}

\* C20: when no section labelled currencyTab4 holds a valid table and a
\* section with another label holds one, parseAtbRates returns the snapshot
\* of the table of that other section, whatever the hidden inputs are.
C20_LegacySectionSecond ==
  \A i \in DOMAIN pdoc :
    (/\ pout.status # "none"
     /\ pdoc[i].t = "tabid" /\ pdoc[i].a # "currencyTab4"
     /\ TableIn(SectionAt(pdoc, i)).ok
     /\ \A j \in LabelAt(pdoc, "currencyTab4") : ~TableIn(SectionAt(pdoc, j)).ok)
      => (pout.status = "returned" /\ pout.rates = TableIn(SectionAt(pdoc, i)).rates)

\* C21 as the claim has it: the value of usd2, eur2, jpy2 is the one used
\* whenever the document has an input of that name, and the value of usd1,
\* eur1, jpy1 only when it has no input of the second name.
FieldThere(text, name) == \E i \in DOMAIN text : text[i].t = "hidden" /\ text[i].a = name

C21_SecondFieldWheneverThere ==
  (pout.status = "returned" /\ ~TableIn(sliceTab(pdoc, "currencyTab4")).ok)
    => /\ FieldThere(pdoc, "usd2") => pout.rates["USD"] = extract(pdoc, "usd2").v
       /\ FieldThere(pdoc, "eur2") => pout.rates["EUR"] = extract(pdoc, "eur2").v
       /\ FieldThere(pdoc, "jpy2")
            => pout.rates["JPY"] \in {extract(pdoc, "jpy2").v, extract(pdoc, "jpy2").v \div 100}

\* C21, amended: an input counts when its value is a text of digits, dots and
\* commas.  The value of usd2, eur2, jpy2 is the one used whenever such an
\* input is there (also when the text is no number: the strategy then
\* fails); the value of usd1, eur1, jpy1 is used when there is no such input
\* of the second name, be it absent or with another value; the rate of each
\* code comes from the one so chosen.
FieldPresent(text, name) ==
  \E i \in DOMAIN text : text[i].t = "hidden" /\ text[i].a = name /\ text[i].txt # <<>>
FieldValue(text, name) ==
  LET i == CHOOSE k \in DOMAIN text :
             /\ text[k].t = "hidden" /\ text[k].a = name /\ text[k].txt # <<>>
             /\ \A j \in 1..(k - 1) :
                  ~(text[j].t = "hidden" /\ text[j].a = name /\ text[j].txt # <<>>)
  IN ToNumber(ReplaceFirstComma(text[i].txt))
ChosenField(text, second, first) ==
  IF FieldPresent(text, second) THEN FieldValue(text, second)
  ELSE IF FieldPresent(text, first) THEN FieldValue(text, first)
  ELSE Nullv

C21_SecondFieldPreferred ==
  (pout.status # "none" /\ ~TableIn(sliceTab(pdoc, "currencyTab4")).ok)
    => LET usd == ChosenField(pdoc, "usd2", "usd1")
           eur == ChosenField(pdoc, "eur2", "eur1")
           jpy == ChosenField(pdoc, "jpy2", "jpy1")
       IN /\ pout.status = "returned" <=> (Truthy(usd) /\ Truthy(eur) /\ Truthy(jpy))
          /\ pout.status = "returned"
               => /\ pout.rates["USD"] = usd.v
                  /\ pout.rates["EUR"] = eur.v
                  /\ pout.rates["JPY"] = IF jpy.v > 5 * RScale THEN jpy.v \div 100 ELSE jpy.v

C21_Witness ==
  /\ pout.status = "returned"
  /\ ~TableIn(sliceTab(pdoc, "currencyTab4")).ok
  /\ FieldPresent(pdoc, "usd2") /\ FieldPresent(pdoc, "usd1")
  /\ FieldValue(pdoc, "usd1") # FieldValue(pdoc, "usd2")
  /\ pout.rates["USD"] = FieldValue(pdoc, "usd2").v
  /\ ~FieldPresent(pdoc, "eur2")
  /\ pout.rates["EUR"] = FieldValue(pdoc, "eur1").v

\* C22 as the claim has it: in the JSON-source variant, when USD, EUR and JPY
\* each have a Value and a Nominal the call stores and returns Value / Nominal
\* for each code with RUB = 1; when one of the three lacks Value or Nominal
\* the call fails and writes nothing.
HasPair(entry) == entry.Value.k = "num" /\ entry.Nominal.k = "num"
RateOfPair(entry) == entry.Value.v \div entry.Nominal.v
JsonSnapshot(data) ==
  [code \in Codes |-> IF code = "RUB" THEN RScale ELSE RateOfPair(ValuteOf(data, code))]
JsonOutcome(c, good) ==
  IF good
  THEN /\ pc[c] \in {"upsert", "written", "done"}
       /\ rates[c] = JsonSnapshot(html[c])
       /\ pc[c] \in {"written", "done"}
            => (wrote[c] /\ CountDate(today[c]) = 1 /\ Stored(today[c]) = rates[c])
       /\ pc[c] = "done" => (path[c] = "fresh" /\ result[c] = rates[c])
  ELSE /\ pc[c] = "failed" /\ err[c] = "fields"
       /\ ~wrote[c] /\ rates[c] = EmptyMap /\ result[c] = EmptyMap

C24_ComputeOnlyFromCompletePower ==
  /\ (last.calls # {} \/ last.saved)
       => /\ last.handler = "text" /\ last.at = "power"
          /\ InputFields \subseteq DOMAIN session.input
          /\ session.input["age"] = "3to5"
          /\ "getRates" \in last.calls
  /\ (/\ last.handler = "text" /\ last.at = "power"
      /\ last.valid /\ last.failure # "upsertUser"
      /\ ~(InputFields \subseteq DOMAIN session.input))
       => /\ last.reply = "incomplete"
          /\ session.step = "price"
          /\ last.calls = {} /\ ~last.saved

C24_Witness ==
  /\ last.handler = "text" /\ last.at = "power" /\ last.reply = "incomplete"
  /\ session.step = "price"
  /\ DOMAIN session.input = {"age", "engineType", "engineVolume", "horsepower"}
  /\ session.input["age"] = "3to5"

\* C25: when getRates, getDeliveryConfig or calculate fails in the power
\* step, the text handler catches the error and replies with the error
\* message, saveHistory is not called and no record is saved, and the step
\* stays done; saveHistory is called only after calculate returned.
C25_FinalStepFailureNotPersisted ==
  /\ last.failure \in {"getRates", "getDeliveryConfig", "calculate"}
       => /\ last.handler = "text" /\ last.at = "power"
          /\ last.caught = "handler" /\ last.reply = "error"
          /\ "saveHistory" \notin last.calls /\ ~last.saved
          /\ session.step = "done"
  /\ ("saveHistory" \in last.calls \/ last.saved)
       => /\ {"getRates", "getDeliveryConfig", "calculate"} \subseteq last.calls
          /\ last.failure \in {"none", "saveHistory"}
          /\ \E o \in Outcomes :
               /\ o.ratesOut.ok /\ o.configOut.ok
               /\ calculate(session.input, o.ratesOut.rates, o.configOut.config).status
                    = "returned"
  /\ last.caught # "none" => last.failure # "none"
  /\ last.failure # "none" => last.caught # "none"

C25_Witness ==
  /\ last.failure = "calculate" /\ last.reply = "error" /\ last.caught = "handler"
  /\ session.step = "done"
  /\ InputFields \subseteq DOMAIN session.input
  /\ session.input["currency"] = "USD"

\* The order of the steps.
Rank(s) ==
  CASE s = "price" -> 1 [] s = "age" -> 2 [] s = "engineType" -> 3
    [] s = "volume" -> 4 [] s = "power" -> 5 [] s = "done" -> 6

\* A text message moves the step forward only to the next step and only
\* when it is valid for the step; an invalid one and one at step done leave
\* the session as it was.
TextProgression ==
  last'.handler = "text"
    => /\ last'.at = session.step
       /\ Rank(session'.step) > Rank(session.step)
            => (last'.valid /\ last'.failure # "upsertUser"
                  /\ Rank(session'.step) = Rank(session.step) + 1)
       /\ ~last'.valid => session' = session
       /\ session.step = "done" => session' = session

\* /start sets the step to price and empties the input.
StartResets ==
  last'.handler = "start" => session' = [step |-> "price", input |-> EmptyMap]

\* C26: a text message advances the step only along price, age, engineType,
\* volume, power, done and only when valid for the current step; an invalid
\* message, and any text at step done, leaves step and input unchanged;
\* /start from any step sets the step to price and clears the input.
C26_StepProgression == [][TextProgression /\ StartResets]_vars

TextStepsInOrder == [][TextProgression]_vars

====
